---- MODULE Spec2Model ----
(***************************************************************************)
(* Model of the three-stage analysis pipeline of src/agents:               *)
(*   repo_fetcher_agent.py       (Segmenter: chunk_text, simple_embedding) *)
(*   structure_analyzer_agent.py (Structure Extractor)                     *)
(*   flow_reasoning_agent.py     (Flow Reasoner)                           *)
(*   agent_graph.py              (run_agent_graph, the orchestrator)       *)
(* Python str values are TLA+ strings; a character is a string of length 1.*)
(* Python lists are sequences.  A Python set is a sequence without         *)
(* duplicates whose order is the set's iteration order, chosen             *)
(* nondeterministically when the set is built (string hashing is           *)
(* randomised per interpreter run).                                        *)
(***************************************************************************)
EXTENDS Integers, Sequences, FiniteSets, TLC

VARIABLES
    op,                \* the function called from outside, "none" before any call
    arg,               \* its argument(s)
    ret,               \* what it returned
    exc,               \* the exception in flight, "" when there is none
    pc,                \* where run_agent_graph is: idle, fetch, analyze, reason, except, done
    fault,             \* the stage in which the environment fails (MemoryError), or "none"
    caught,            \* the exception handled by run_agent_graph's except clause, or ""
    chunk_result,      \* execute_pipeline's local of that name
    structure_result,  \* execute_pipeline's local of that name
    locals             \* StructureAnalyzerAgent.process's locals entities and dependencies

vars == <<op, arg, ret, exc, pc, fault, caught, chunk_result, structure_result, locals>>

(***************************************************************************)
(* Bounds of the model.                                                    *)
(***************************************************************************)
MaxItems == 5        \* words and whitespace runs in a text given to chunk_text
MaxChunkSize == 6    \* largest chunk_size given to chunk_text
MaxEmbedItems == 2   \* words and whitespace runs in a text given to simple_embedding
MaxChunks == 2       \* chunks given to StructureAnalyzerAgent.process
MaxNodes == 9        \* nodes of a graph given to the Flow Reasoner

(***************************************************************************)
(* Python built-ins on str and list.                                       *)
(***************************************************************************)
\* F applied to the value of x: as in Python, the argument is evaluated before the
\* call, once.  Loops over a sequence are written as the loop over its first half
\* followed by the loop over its second half, each started from the state the
\* previous one ended in.
Call(F(_), x) == CHOOSE r \in {F(v) : v \in {x}} : TRUE

Whitespace == {" ", "\t", "\n"}

CharAt(s, i) == SubSeq(s, i, i)

Range(f) == {f[i] : i \in DOMAIN f}

RECURSIVE Join(_, _)
Join(sep, ws) ==
    IF Len(ws) = 0 THEN ""
    ELSE IF Len(ws) = 1 THEN ws[1]
    ELSE LET h == Len(ws) \div 2
         IN  Join(sep, SubSeq(ws, 1, h)) \o sep \o Join(sep, SubSeq(ws, h + 1, Len(ws)))

\* str.split(): the maximal runs of non-whitespace characters, in order.
WordStarts(s) ==
    {i \in 1..Len(s) : CharAt(s, i) \notin Whitespace
                       /\ (i = 1 \/ CharAt(s, i - 1) \in Whitespace)}

WordEnds(s) ==
    {j \in 1..Len(s) : CharAt(s, j) \notin Whitespace
                       /\ (j = Len(s) \/ CharAt(s, j + 1) \in Whitespace)}

\* The k-th smallest element of a set of numbers.
Nth(S, k) == CHOOSE i \in S : Cardinality({m \in S : m < i}) = k - 1

SplitAt(starts, ends, s) ==
    [k \in 1..Cardinality(starts) |-> SubSeq(s, Nth(starts, k), Nth(ends, k))]

Split(s) ==
    LET Words(starts) ==
            LET At(ends) == SplitAt(starts, ends, s)
            IN  Call(At, WordEnds(s))
    IN  Call(Words, WordStarts(s))

(***************************************************************************)
(* RepoFetcherAgent.chunk_text                                             *)
(***************************************************************************)
\* One iteration of the for loop over words; st = [chunks, current_chunk, current_size].
\* A variant that tests the size before the word is added and closes the chunk
\* without it.
ChunkStepClosingFirst(st, word, chunk_size) ==
    LET size == st.current_size + Len(word) + 1
    IN  IF size >= chunk_size
        THEN [chunks |-> Append(st.chunks, Join(" ", st.current_chunk)),
              current_chunk |-> <<word>>, current_size |-> Len(word) + 1]
        ELSE [chunks |-> st.chunks, current_chunk |-> Append(st.current_chunk, word),
              current_size |-> size]

ChunkStep(st, word, chunk_size) ==
    LET cur  == Append(st.current_chunk, word)
        size == st.current_size + Len(word) + 1
    IN  IF size >= chunk_size
        THEN [chunks |-> Append(st.chunks, Join(" ", cur)),
              current_chunk |-> <<>>, current_size |-> 0]
        ELSE [chunks |-> st.chunks, current_chunk |-> cur, current_size |-> size]

\* for word in words[lo-1:hi]
RECURSIVE ChunkLoop(_, _, _, _, _)
ChunkLoop(st, words, lo, hi, chunk_size) ==
    IF lo > hi THEN st
    ELSE IF lo = hi THEN ChunkStep(st, words[lo], chunk_size)
    ELSE CHOOSE r \in {ChunkLoop(half, words, ((lo + hi) \div 2) + 1, hi, chunk_size) :
                          half \in {ChunkLoop(st, words, lo, (lo + hi) \div 2, chunk_size)}} : TRUE

chunk_text(t, chunk_size) ==
    LET Loop(words) ==
            ChunkLoop([chunks |-> <<>>, current_chunk |-> <<>>, current_size |-> 0],
                      words, 1, Len(words), chunk_size)
        Result(st) ==
            IF st.current_chunk # <<>>
            THEN Append(st.chunks, Join(" ", st.current_chunk))
            ELSE st.chunks
    IN  Call(Result, Call(Loop, Split(t)))

(***************************************************************************)
(* hashlib.md5(text.encode()).digest(): RFC 1321 on the UTF-8 bytes of the *)
(* text (ASCII here).  A 32-bit word is a pair <<hi, lo>> of 16-bit halves *)
(* so that no intermediate value leaves the 32-bit range.                  *)
(***************************************************************************)
\* The printable ASCII characters 32..95 and 97..126 in code order (a TLA+ string
\* cannot hold the grave accent, code 96; no text of the model contains it).
AsciiLow == " !\"#$%&'()*+,-./0123456789:;<=>?@ABCDEFGHIJKLMNOPQRSTUVWXYZ[\\]^_"
AsciiHigh == "abcdefghijklmnopqrstuvwxyz{|}~"

Ord(c) ==
    IF c = "\t" THEN 9
    ELSE IF c = "\n" THEN 10
    ELSE IF \E i \in 1..Len(AsciiLow) : CharAt(AsciiLow, i) = c
    THEN 31 + (CHOOSE i \in 1..Len(AsciiLow) : CharAt(AsciiLow, i) = c)
    ELSE 96 + (CHOOSE i \in 1..Len(AsciiHigh) : CharAt(AsciiHigh, i) = c)

Encode(s) == [i \in 1..Len(s) |-> Ord(CharAt(s, i))]

\* Bitwise and of two 4-bit numbers, and of two 16-bit numbers by 4-bit digits.
And4 ==
    [a \in 0..15, b \in 0..15 |->
        ((a % 2) * (b % 2)) + (2 * (((a \div 2) % 2) * ((b \div 2) % 2)))
        + (4 * (((a \div 4) % 2) * ((b \div 4) % 2))) + (8 * ((a \div 8) * (b \div 8)))]

And16(a, b) ==
    And4[a % 16, b % 16] + (16 * And4[(a \div 16) % 16, (b \div 16) % 16])
    + (256 * And4[(a \div 256) % 16, (b \div 256) % 16])
    + (4096 * And4[a \div 4096, b \div 4096])

WAnd(x, y) == <<And16(x[1], y[1]), And16(x[2], y[2])>>
WOr(x, y)  == <<x[1] + y[1] - And16(x[1], y[1]), x[2] + y[2] - And16(x[2], y[2])>>
WXor(x, y) == <<x[1] + y[1] - (2 * And16(x[1], y[1])), x[2] + y[2] - (2 * And16(x[2], y[2]))>>
WNot(x)    == <<65535 - x[1], 65535 - x[2]>>
WAdd(x, y) ==
    LET lo == x[2] + y[2]
    IN  <<(x[1] + y[1] + (lo \div 65536)) % 65536, lo % 65536>>

RECURSIVE Pow2(_)
Pow2(n) == IF n = 0 THEN 1 ELSE 2 * Pow2(n - 1)

\* Rotate a 32-bit word left by s bits, 0 < s < 32.
WRotl(x, s) ==
    LET y == IF s >= 16 THEN <<x[2], x[1]>> ELSE x
        r == s % 16
    IN  <<((y[1] * Pow2(r)) % 65536) + (y[2] \div Pow2(16 - r)),
          ((y[2] * Pow2(r)) % 65536) + (y[1] \div Pow2(16 - r))>>

MD5_K ==
  <<
    <<55146, 42104>>, <<59591, 46934>>, <<9248, 28891>>, <<49597, 52974>>,
    <<62844, 4015>>, <<18311, 50730>>, <<43056, 17939>>, <<64838, 38145>>,
    <<27008, 39128>>, <<35652, 63407>>, <<65535, 23473>>, <<35164, 55230>>,
    <<27536, 4386>>, <<64920, 29075>>, <<42617, 17294>>, <<18868, 2081>>,
    <<63006, 9570>>, <<49216, 45888>>, <<9822, 23121>>, <<59830, 51114>>,
    <<54831, 4189>>, <<580, 5203>>, <<55457, 59009>>, <<59347, 64456>>,
    <<8673, 52710>>, <<49975, 2006>>, <<62677, 3463>>, <<17754, 5357>>,
    <<43491, 59653>>, <<64751, 41976>>, <<26479, 729>>, <<36138, 19594>>,
    <<65530, 14658>>, <<34673, 63105>>, <<28061, 24866>>, <<64997, 14348>>,
    <<42174, 59972>>, <<19422, 53161>>, <<63163, 19296>>, <<48831, 48240>>,
    <<10395, 32454>>, <<60065, 10234>>, <<54511, 12421>>, <<1160, 7429>>,
    <<55764, 53305>>, <<59099, 39397>>, <<8098, 31992>>, <<50348, 22117>>,
    <<62505, 8772>>, <<17194, 65431>>, <<43924, 9127>>, <<64659, 41017>>,
    <<25947, 22979>>, <<36620, 52370>>, <<65519, 62589>>, <<34180, 24017>>,
    <<28584, 32335>>, <<65068, 59104>>, <<41729, 17172>>, <<19976, 4513>>,
    <<63315, 32386>>, <<48442, 62005>>, <<10967, 53947>>, <<60294, 54161>>
  >>

MD5_S ==
  <<7, 12, 17, 22, 7, 12, 17, 22, 7, 12, 17, 22, 7, 12, 17, 22,
    5, 9, 14, 20, 5, 9, 14, 20, 5, 9, 14, 20, 5, 9, 14, 20,
    4, 11, 16, 23, 4, 11, 16, 23, 4, 11, 16, 23, 4, 11, 16, 23,
    6, 10, 15, 21, 6, 10, 15, 21, 6, 10, 15, 21, 6, 10, 15, 21>>

MD5_IV == <<<<26437, 8961>>, <<61389, 43913>>, <<39098, 56574>>, <<4146, 21622>>>>

\* The padded message: 0x80, zeros to 56 mod 64, then the bit length as 8
\* little-endian bytes (texts are shorter than 2^28 bytes, so the upper four are 0).
MD5Pad(b) ==
    LET n    == Len(b)
        bits == 8 * n
    IN  b \o <<128>> \o [i \in 1..((55 - n) % 64) |-> 0]
          \o <<bits % 256, (bits \div 256) % 256, (bits \div 65536) % 256,
               (bits \div 16777216) % 256, 0, 0, 0, 0>>

\* Word g (0-based) of the 64-byte block starting after byte `base`.
MD5Word(p, base, g) ==
    LET o == base + 4 * g
    IN  <<p[o + 3] + (256 * p[o + 4]), p[o + 1] + (256 * p[o + 2])>>

MD5Step(st, p, base, i) ==
    LET A == st[1]
        B == st[2]
        C == st[3]
        D == st[4]
        F == IF i < 16 THEN WOr(WAnd(B, C), WAnd(WNot(B), D))
             ELSE IF i < 32 THEN WOr(WAnd(D, B), WAnd(WNot(D), C))
             ELSE IF i < 48 THEN WXor(WXor(B, C), D)
             ELSE WXor(C, WOr(B, WNot(D)))
        g == IF i < 16 THEN i
             ELSE IF i < 32 THEN (5 * i + 1) % 16
             ELSE IF i < 48 THEN (3 * i + 5) % 16
             ELSE (7 * i) % 16
        Sum(f) == WAdd(WAdd(WAdd(f, A), MD5_K[i + 1]), MD5Word(p, base, g))
        Out(t) == <<D, WAdd(B, WRotl(t, MD5_S[i + 1])), B, C>>
    IN  Call(Out, Call(Sum, F))

\* Steps lo .. hi-1 of one block, applied in order (lo < hi).
RECURSIVE MD5Rounds(_, _, _, _, _)
MD5Rounds(st, p, base, lo, hi) ==
    IF hi = lo + 1 THEN MD5Step(st, p, base, lo)
    ELSE CHOOSE r \in {MD5Rounds(half, p, base, (lo + hi) \div 2, hi) :
                          half \in {MD5Rounds(st, p, base, lo, (lo + hi) \div 2)}} : TRUE

MD5Block(st, p, base) ==
    LET Sum(r) == <<WAdd(st[1], r[1]), WAdd(st[2], r[2]), WAdd(st[3], r[3]), WAdd(st[4], r[4])>>
    IN  Call(Sum, MD5Rounds(st, p, base, 0, 64))

\* Blocks lo .. hi-1 of the padded message, applied in order (lo < hi).
RECURSIVE MD5Blocks(_, _, _, _)
MD5Blocks(st, p, lo, hi) ==
    IF hi = lo + 1 THEN MD5Block(st, p, 64 * lo)
    ELSE CHOOSE r \in {MD5Blocks(half, p, (lo + hi) \div 2, hi) :
                          half \in {MD5Blocks(st, p, lo, (lo + hi) \div 2)}} : TRUE

WBytes(w) == <<w[2] % 256, w[2] \div 256, w[1] % 256, w[1] \div 256>>

MD5Digest(p) ==
    LET Bytes(st) == WBytes(st[1]) \o WBytes(st[2]) \o WBytes(st[3]) \o WBytes(st[4])
    IN  Call(Bytes, MD5Blocks(MD5_IV, p, 0, Len(p) \div 64))

md5_digest(s) == Call(MD5Digest, MD5Pad(Encode(s)))

(***************************************************************************)
(* RepoFetcherAgent.simple_embedding.  float(b) / 255.0 is kept as the     *)
(* exact fraction <<b, 255>> (numerator, denominator).                     *)
(***************************************************************************)
simple_embedding(t) ==
    LET hash_bytes == md5_digest(t)
        head       == SubSeq(hash_bytes, 1, IF Len(hash_bytes) < 128 THEN Len(hash_bytes) ELSE 128)
    IN  [i \in 1..Len(head) |-> <<head[i], 255>>]

(***************************************************************************)
(* str.lower(), the `in` operator on str, and the character classes of re. *)
(***************************************************************************)
UpperAlpha == "ABCDEFGHIJKLMNOPQRSTUVWXYZ"
LowerAlpha == "abcdefghijklmnopqrstuvwxyz"
Digits == "0123456789"

UpperSet == {CharAt(UpperAlpha, i) : i \in 1..Len(UpperAlpha)}

LowerOf == [c \in UpperSet |->
               CharAt(LowerAlpha, CHOOSE i \in 1..Len(UpperAlpha) : CharAt(UpperAlpha, i) = c)]

LowerChar(c) == IF c \in UpperSet THEN LowerOf[c] ELSE c

RECURSIVE Lower(_)
Lower(s) ==
    IF Len(s) = 0 THEN ""
    ELSE IF Len(s) = 1 THEN LowerChar(s)
    ELSE LET h == Len(s) \div 2
         IN  Lower(SubSeq(s, 1, h)) \o Lower(SubSeq(s, h + 1, Len(s)))

\* needle in hay
Contains(needle, hay) ==
    \E i \in 0..(Len(hay) - Len(needle)) : SubSeq(hay, i + 1, i + Len(needle)) = needle

\* \w
WordChars ==
    {CharAt(UpperAlpha, i) : i \in 1..Len(UpperAlpha)}
    \cup {CharAt(LowerAlpha, i) : i \in 1..Len(LowerAlpha)}
    \cup {CharAt(Digits, i) : i \in 1..Len(Digits)} \cup {"_"}

WordChar(c) == c \in WordChars

(***************************************************************************)
(* StructureAnalyzerAgent.extract_entities                                 *)
(***************************************************************************)
\* The keyword of each pattern r'\bKEYWORD\s+(\w+)', in the order of the list.
patterns ==
    <<"class", "function", "def", "const", "let", "var", "interface", "type",
      "component", "API", "endpoint", "service", "module">>

\* Where the group (\w+) starts if r'\bkw\s+(\w+)' matches at position p of s
\* under re.IGNORECASE, and 0 if it does not match there.
GroupStart(kw, s, p) ==
    LET q == p + Len(kw)
    IN  IF /\ q <= Len(s)
           /\ LowerChar(CharAt(s, p)) = LowerChar(CharAt(kw, 1))
           /\ Lower(SubSeq(s, p, q - 1)) = Lower(kw)
           /\ (p = 1 \/ ~WordChar(CharAt(s, p - 1)))
           /\ CharAt(s, q) \in Whitespace
        THEN LET w == CHOOSE k \in (q + 1)..(Len(s) + 1) :
                          /\ \A m \in q..(k - 1) : CharAt(s, m) \in Whitespace
                          /\ (k = Len(s) + 1 \/ CharAt(s, k) \notin Whitespace)
             IN  IF w <= Len(s) /\ WordChar(CharAt(s, w)) THEN w ELSE 0
        ELSE 0

\* The end of the greedy run \w+ that starts at w.
GroupEnd(s, w) ==
    CHOOSE e \in w..Len(s) :
        /\ \A m \in w..e : WordChar(CharAt(s, m))
        /\ (e = Len(s) \/ ~WordChar(CharAt(s, e + 1)))

\* re.findall(pattern, chunk, re.IGNORECASE): the groups of the non-overlapping
\* matches, scanning from the left.
RECURSIVE FindAllFrom(_, _, _)
FindAllFrom(kw, s, from) ==
    LET hits == {p \in from..Len(s) : GroupStart(kw, s, p) > 0}
        p == CHOOSE m \in hits : \A o \in hits : m <= o
        w == GroupStart(kw, s, p)
        Rest(e) == <<SubSeq(s, w, e)>> \o FindAllFrom(kw, s, e + 1)
    IN  IF hits = {} THEN <<>> ELSE Call(Rest, GroupEnd(s, w))

FindAll(kw, s) == FindAllFrom(kw, s, 1)

\* The set built by entities.update(matches) over every chunk and pattern.
extract_entities(chunks) ==
    UNION {Range(FindAll(patterns[k], chunks[c])) : k \in DOMAIN patterns, c \in DOMAIN chunks}

\* The orders in which a Python set may be iterated.
IterationOrders(S) ==
    {o \in [1..Cardinality(S) -> S] : \A i, j \in DOMAIN o : i # j => o[i] # o[j]}

(***************************************************************************)
(* StructureAnalyzerAgent.find_dependencies; entities is the set in its    *)
(* iteration order.                                                        *)
(***************************************************************************)
FoundEntities(chunk, entities) ==
    LET chunk_lower == Lower(chunk)
        InChunk(e)  == Contains(Lower(e), chunk_lower)
    IN  SelectSeq(entities, InChunk)

\* for entity2 in found_entities[i+1:]
RECURSIVE PairsAfter(_, _, _)
PairsAfter(found, i, j) ==
    IF j > Len(found) THEN <<>>
    ELSE (IF found[i] # found[j] THEN <<<<found[i], found[j]>>>> ELSE <<>>)
         \o PairsAfter(found, i, j + 1)

\* for i, entity1 in enumerate(found_entities)
RECURSIVE PairsFrom(_, _)
PairsFrom(found, i) ==
    IF i > Len(found) THEN <<>>
    ELSE PairsAfter(found, i, i + 1) \o PairsFrom(found, i + 1)

\* A variant that pairs every found entity with every other one, in both directions.
ChunkDependenciesBothWays(chunk, entities) ==
    LET found == FoundEntities(chunk, entities)
        n == Len(found)
        pairs == [k \in 1..(n * n) |-> <<found[((k - 1) \div n) + 1], found[((k - 1) % n) + 1]>>]
        Distinct(p) == p[1] # p[2]
    IN  SelectSeq(pairs, Distinct)

ChunkDependencies(chunk, entities) == PairsFrom(FoundEntities(chunk, entities), 1)

RECURSIVE find_dependencies(_, _)
find_dependencies(chunks, entities) ==
    IF chunks = <<>> THEN <<>>
    ELSE ChunkDependencies(Head(chunks), entities) \o find_dependencies(Tail(chunks), entities)

(***************************************************************************)
(* networkx.DiGraph: the nodes in insertion order and, per node, its       *)
(* successors in insertion order.                                          *)
(***************************************************************************)
EmptyGraph == [nodes |-> <<>>, adj |-> <<>>]

HasNode(G, n) == \E i \in DOMAIN G.nodes : G.nodes[i] = n

NodeIndex(G, n) == CHOOSE i \in DOMAIN G.nodes : G.nodes[i] = n

Successors(G, n) == G.adj[NodeIndex(G, n)]

add_node(G, n) ==
    IF HasNode(G, n) THEN G
    ELSE [nodes |-> Append(G.nodes, n), adj |-> Append(G.adj, <<>>)]

add_edge(G, u, v) ==
    LET Link(G2) ==
            LET i == NodeIndex(G2, u)
            IN  IF \E k \in DOMAIN G2.adj[i] : G2.adj[i][k] = v THEN G2
                ELSE [G2 EXCEPT !.adj[i] = Append(@, v)]
    IN  Call(Link, add_node(add_node(G, u), v))

\* for n in ns[lo-1:hi]: G.add_node(n)
RECURSIVE AddNodesFrom(_, _, _, _)
AddNodesFrom(G, ns, lo, hi) ==
    IF lo > hi THEN G
    ELSE IF lo = hi THEN add_node(G, ns[lo])
    ELSE CHOOSE r \in {AddNodesFrom(half, ns, ((lo + hi) \div 2) + 1, hi) :
                          half \in {AddNodesFrom(G, ns, lo, (lo + hi) \div 2)}} : TRUE

add_nodes_from(G, ns) == AddNodesFrom(G, ns, 1, Len(ns))

\* for u, v in es[lo-1:hi]: G.add_edge(u, v)
RECURSIVE AddEdgesFrom(_, _, _, _)
AddEdgesFrom(G, es, lo, hi) ==
    IF lo > hi THEN G
    ELSE IF lo = hi THEN add_edge(G, es[lo][1], es[lo][2])
    ELSE CHOOSE r \in {AddEdgesFrom(half, es, ((lo + hi) \div 2) + 1, hi) :
                          half \in {AddEdgesFrom(G, es, lo, (lo + hi) \div 2)}} : TRUE

add_edges_from(G, es) == AddEdgesFrom(G, es, 1, Len(es))

\* list(G.nodes())
GraphNodes(G) == G.nodes

\* [(u, v) for u, v in G.edges()]: by source node, then by successor.
RECURSIVE EdgesFrom(_, _, _)
EdgesFrom(G, lo, hi) ==
    IF lo > hi THEN <<>>
    ELSE IF lo = hi THEN [k \in DOMAIN G.adj[lo] |-> <<G.nodes[lo], G.adj[lo][k]>>]
    ELSE EdgesFrom(G, lo, (lo + hi) \div 2) \o EdgesFrom(G, ((lo + hi) \div 2) + 1, hi)

GraphEdges(G) == EdgesFrom(G, 1, Len(G.nodes))

in_degree(G, n) == Cardinality({i \in DOMAIN G.nodes : \E k \in DOMAIN G.adj[i] : G.adj[i][k] = n})

out_degree(G, n) == Len(Successors(G, n))

degree(G, n) == in_degree(G, n) + out_degree(G, n)

\* The nodes reachable from n when edge direction is ignored.
RECURSIVE WeakReach(_, _)
WeakReach(G, seen) ==
    LET more == {m \in Range(G.nodes) :
                    \E n \in seen : \/ \E k \in DOMAIN Successors(G, n) : Successors(G, n)[k] = m
                                    \/ \E k \in DOMAIN Successors(G, m) : Successors(G, m)[k] = n}
        Rest(all) == WeakReach(G, all)
    IN  IF more \subseteq seen THEN seen ELSE Call(Rest, seen \cup more)

\* list(nx.weakly_connected_components(G)): one set per component, in the order of
\* each component's first node.
RECURSIVE ComponentsFrom(_, _, _)
ComponentsFrom(G, i, seen) ==
    LET Rest(c) == <<c>> \o ComponentsFrom(G, i + 1, seen \cup c)
    IN  IF i > Len(G.nodes) THEN <<>>
        ELSE IF G.nodes[i] \in seen THEN ComponentsFrom(G, i + 1, seen)
        ELSE Call(Rest, WeakReach(G, {G.nodes[i]}))

weakly_connected_components(G) == ComponentsFrom(G, 1, {})

(***************************************************************************)
(* StructureAnalyzerAgent.process, given the iteration order of the set    *)
(* returned by extract_entities.                                           *)
(***************************************************************************)
StructureLocals(chunks, entities) ==
    [entities |-> entities, dependencies |-> find_dependencies(chunks, entities)]

GraphData(G) ==
    [nodes |-> GraphNodes(G),
     edges |-> GraphEdges(G),
     components |-> IF GraphNodes(G) # <<>> THEN weakly_connected_components(G) ELSE <<>>]

StructureProcess(chunks, entities) ==
    LET dependencies == find_dependencies(chunks, entities)
        G == add_edges_from(add_nodes_from(EmptyGraph, entities), dependencies)
    IN  [dependency_graph |-> Call(GraphData, G)]

(***************************************************************************)
(* Exceptions: the classes that can be raised here and their base classes  *)
(* (networkx.exception and the Python built-ins).                          *)
(***************************************************************************)
ExceptionBase ==
    [NetworkXUnfeasible     |-> "NetworkXAlgorithmError",
     NetworkXAlgorithmError |-> "NetworkXException",
     NetworkXError          |-> "NetworkXException",
     NetworkXException      |-> "Exception",
     AttributeError         |-> "Exception",
     MemoryError            |-> "Exception",
     Exception              |-> "BaseException"]

\* issubclass(cls, base)
RECURSIVE IsSubclass(_, _)
IsSubclass(cls, base) ==
    \/ cls = base
    \/ cls \in DOMAIN ExceptionBase /\ IsSubclass(ExceptionBase[cls], base)

Returned(v) == [raised |-> "", value |-> v]

Raised(e) == [raised |-> e, value |-> <<>>]

\* seq[:n]
Take(seq, n) == SubSeq(seq, 1, IF Len(seq) < n THEN Len(seq) ELSE n)

(***************************************************************************)
(* list(nx.topological_sort(G)): the generations of Kahn's algorithm, one  *)
(* after the other.  indeg[i] is indegree_map of node i, 0 when the node   *)
(* is not (or no longer) a key of the map.                                 *)
(***************************************************************************)
\* The body of `for child in G.neighbors(node)`.
TopoChild(G, st, child) ==
    LET c == NodeIndex(G, child)
        d == st.indeg[c] - 1
    IN  [indeg |-> [st.indeg EXCEPT ![c] = d],
         zero  |-> IF d = 0 THEN Append(st.zero, child) ELSE st.zero]

\* for child in children[lo-1:hi]
RECURSIVE TopoChildren(_, _, _, _, _)
TopoChildren(G, st, children, lo, hi) ==
    IF lo > hi THEN st
    ELSE IF lo = hi THEN TopoChild(G, st, children[lo])
    ELSE CHOOSE r \in {TopoChildren(G, half, children, ((lo + hi) \div 2) + 1, hi) :
                          half \in {TopoChildren(G, st, children, lo, (lo + hi) \div 2)}} : TRUE

\* for node in this_generation[lo-1:hi]
RECURSIVE TopoGeneration(_, _, _, _, _)
TopoGeneration(G, st, gen, lo, hi) ==
    IF lo > hi THEN st
    ELSE IF lo = hi
    THEN TopoChildren(G, st, Successors(G, gen[lo]), 1, Len(Successors(G, gen[lo])))
    ELSE CHOOSE r \in {TopoGeneration(G, half, gen, ((lo + hi) \div 2) + 1, hi) :
                          half \in {TopoGeneration(G, st, gen, lo, (lo + hi) \div 2)}} : TRUE

\* One pass of `while zero_indegree`: the generation is yielded and the next one
\* collected; nothing changes once zero_indegree is empty.
TopoPass(G, st) ==
    LET Next(nx) == [indeg |-> nx.indeg, zero |-> nx.zero, order |-> st.order \o st.zero]
    IN  IF st.zero = <<>> THEN st
        ELSE Call(Next, TopoGeneration(G, [indeg |-> st.indeg, zero |-> <<>>],
                                       st.zero, 1, Len(st.zero)))

\* n passes of the while loop.  The loop ends after at most one pass per node.
RECURSIVE TopoLoop(_, _, _)
TopoLoop(G, st, n) ==
    IF n = 0 THEN st
    ELSE IF n = 1 THEN TopoPass(G, st)
    ELSE CHOOSE r \in {TopoLoop(G, half, n - (n \div 2)) :
                          half \in {TopoLoop(G, st, n \div 2)}} : TRUE

topological_sort(G) ==
    LET indeg0 == [i \in DOMAIN G.nodes |-> in_degree(G, G.nodes[i])]
        IsZero(n) == in_degree(G, n) = 0
        Result(r) == IF \E i \in DOMAIN r.indeg : r.indeg[i] > 0
                     THEN Raised("NetworkXUnfeasible")
                     ELSE Returned(r.order)
    IN  Call(Result, TopoLoop(G, [indeg |-> indeg0, zero |-> SelectSeq(G.nodes, IsZero),
                                  order |-> <<>>], Len(G.nodes)))

(***************************************************************************)
(* FlowReasoningAgent.build_execution_flow                                 *)
(***************************************************************************)
GraphOf(graph_data) ==
    add_edges_from(add_nodes_from(EmptyGraph, graph_data.nodes), graph_data.edges)

\* The body of the for loop over enumerate(topological_order[:8]); i is 0-based.
FlowStep(topological_order, i) ==
    LET node == topological_order[i + 1]
    IN  IF i = 0 THEN "Initialize " \o node
        ELSE IF i = Len(topological_order) - 1 THEN "Return result from " \o node
        ELSE "Process " \o node

FlowSteps(topological_order) ==
    [k \in 1..Len(Take(topological_order, 8)) |-> FlowStep(topological_order, k - 1)]

\* The clause `except nx.NetworkXError` handles an exception of that class or of
\* a subclass of it; any other exception leaves the function.
build_execution_flow(graph_data) ==
    LET nodes == graph_data.nodes
        Flow(sorted) ==
            IF sorted.raised = "" THEN Returned(FlowSteps(sorted.value))
            ELSE IF IsSubclass(sorted.raised, "NetworkXError")
            THEN Returned(FlowSteps(Take(nodes, 10)))
            ELSE Raised(sorted.raised)
    IN  IF nodes = <<>>
        THEN Returned(<<"System initializes", "Processes input", "Returns output">>)
        ELSE Call(Flow, Call(topological_sort, GraphOf(graph_data)))

(***************************************************************************)
(* FlowReasoningAgent.extract_key_components                               *)
(***************************************************************************)
\* nx.degree_centrality(G) as (node, score) items in node order; the score
\* d * (1.0 / (n - 1)) is kept as the fraction <<d, n - 1>>, and is 1 when n <= 1.
degree_centrality(G) ==
    [i \in DOMAIN G.nodes |->
        <<G.nodes[i],
          IF Len(G.nodes) <= 1 THEN <<1, 1>>
          ELSE <<degree(G, G.nodes[i]), Len(G.nodes) - 1>>>>]

FracLess(x, y) == x[1] * y[2] < y[1] * x[2]

\* sorted(items, key=lambda x: x[1], reverse=True): a stable sort, so an item goes
\* after every item already placed whose key is not smaller.
\* A variant that is not stable: an item goes before the items of equal key.
InsertDescBeforeTies(done, item) ==
    LET notLarger == {k \in DOMAIN done : ~FracLess(item[2], done[k][2])}
        at == IF notLarger = {} THEN Len(done) + 1
              ELSE CHOOSE k \in notLarger : \A o \in notLarger : k <= o
    IN  SubSeq(done, 1, at - 1) \o <<item>> \o SubSeq(done, at, Len(done))

InsertDesc(done, item) ==
    LET smaller == {k \in DOMAIN done : FracLess(done[k][2], item[2])}
        at == IF smaller = {} THEN Len(done) + 1
              ELSE CHOOSE k \in smaller : \A o \in smaller : k <= o
    IN  SubSeq(done, 1, at - 1) \o <<item>> \o SubSeq(done, at, Len(done))

\* The items lo .. hi placed, in order, into the sorted sequence done.
RECURSIVE SortedDesc(_, _, _, _)
SortedDesc(done, items, lo, hi) ==
    IF lo > hi THEN done
    ELSE IF lo = hi THEN InsertDesc(done, items[lo])
    ELSE CHOOSE r \in {SortedDesc(half, items, ((lo + hi) \div 2) + 1, hi) :
                          half \in {SortedDesc(done, items, lo, (lo + hi) \div 2)}} : TRUE

extract_key_components(graph_data) ==
    LET nodes == graph_data.nodes
        Sorted(centrality) == SortedDesc(<<>>, centrality, 1, Len(centrality))
        Names(sorted_nodes) == [k \in DOMAIN Take(sorted_nodes, 5) |-> sorted_nodes[k][1]]
    IN  IF nodes = <<>> THEN <<"core system", "input handler", "output formatter">>
        ELSE Call(Names, Call(Sorted, Call(degree_centrality, GraphOf(graph_data))))

(***************************************************************************)
(* FlowReasoningAgent.extract_key_functions                                *)
(***************************************************************************)
function_keywords ==
    <<"handler", "process", "create", "update", "delete", "fetch", "get", "post", "put">>

\* A variant that matches a keyword only at the start of the name.
IsFunctionNamePrefix(node) ==
    \E k \in DOMAIN function_keywords :
        /\ Len(function_keywords[k]) <= Len(node)
        /\ SubSeq(Lower(node), 1, Len(function_keywords[k])) = function_keywords[k]

IsFunctionName(node) ==
    \E k \in DOMAIN function_keywords : Contains(function_keywords[k], Lower(node))

\* A variant whose last fallback is the list of the generic summary.
extract_key_functions_generic(graph_data) ==
    LET nodes == graph_data.nodes
        functions == SelectSeq(nodes, IsFunctionName)
    IN  IF functions # <<>> THEN Take(functions, 5)
        ELSE IF nodes # <<>> THEN Take(nodes, 5)
        ELSE <<"main", "init", "process">>

extract_key_functions(graph_data) ==
    LET nodes == graph_data.nodes
        functions == SelectSeq(nodes, IsFunctionName)
    IN  IF functions # <<>> THEN Take(functions, 5)
        ELSE IF nodes # <<>> THEN Take(nodes, 5)
        ELSE <<"main", "init", "run">>

(***************************************************************************)
(* FlowReasoningAgent.process                                              *)
(***************************************************************************)
FlowProcess(dependency_graph) ==
    LET execution_flow == build_execution_flow(dependency_graph)
    IN  IF execution_flow.raised # "" THEN Raised(execution_flow.raised)
        ELSE Returned([execution_flow |-> execution_flow.value,
                       key_components |-> extract_key_components(dependency_graph),
                       key_functions  |-> extract_key_functions(dependency_graph)])

(***************************************************************************)
(* RepoFetcherAgent.process                                                *)
(***************************************************************************)
RepoFetcherProcess(t) ==
    LET chunks == chunk_text(t, 1000)
    IN  [chunks |-> chunks,
         embeddings |-> [i \in DOMAIN chunks |-> simple_embedding(chunks[i])]]

(***************************************************************************)
(* agent_graph.run_agent_graph: the result of the except clause.           *)
(***************************************************************************)
GenericSummary ==
    [key_components |-> <<"core system", "input handler", "output formatter">>,
     key_functions  |-> <<"main", "init", "process">>,
     execution_flow |-> <<"System initializes core components",
                          "Input handler receives and validates data",
                          "Main processor transforms the data",
                          "Output formatter prepares response",
                          "System returns formatted result">>]

(***************************************************************************)
(* Inputs.                                                                 *)
(***************************************************************************)
TextItems == {"a", "bcd", " ", "\n"}

RECURSIVE Concat(_)
Concat(ss) == IF ss = <<>> THEN "" ELSE Head(ss) \o Concat(Tail(ss))

TextsUpTo(n) == {Concat(ss) : ss \in UNION {[1..k -> TextItems] : k \in 0..n}}

PlainTexts == TextsUpTo(MaxItems)

EmbedTexts == TextsUpTo(MaxEmbedItems)

RECURSIVE Repeat(_, _)
Repeat(s, n) ==
    IF n = 0 THEN ""
    ELSE IF n = 1 THEN s
    ELSE Repeat(s, n \div 2) \o Repeat(s, n - (n \div 2))

\* Two chunks at the default chunk_size: the first closes after the long word.
LongText == "class Foo uses class Bar " \o Repeat("x", 1000) \o " class Bar calls class Foo"

CodeTexts ==
    {"", "   ", "plain prose with no declarations in it",
     "class Foo uses class Bar", "class Foo uses class Bar class Bar calls class Baz",
     "def getUser(x): return fetch(x)", "function handler calls def process in class Widget",
     "const a = 1; let b = a; var c", "API v1 endpoint users service db module core",
     "class class Foo", "subclass X typed Y interface\tZ", LongText}

PyStr(s) == [type |-> "str", value |-> s]

PyNone == [type |-> "NoneType"]

ChunkPool ==
    {"class Foo uses class Bar", "class Bar calls class Baz", "class Baz extends class Foo",
     "def foo(): pass", "plain prose"}

ChunkLists == UNION {[1..n -> ChunkPool] : n \in 0..MaxChunks}

NodeNames ==
    <<"getUser", "setConfig", "Widget", "handler", "Main", "fetchData", "db", "PostBox",
      "Output", "updater", "Init", "core", "Input", "Store">>

\* The shapes a larger graph is put together from, as edge lists over ns.
Chain(ns)   == [i \in 1..(Len(ns) - 1) |-> <<ns[i], ns[i + 1]>>]
Back(ns)    == IF Len(ns) >= 2 THEN <<<<ns[Len(ns)], ns[1]>>>> ELSE <<>>
StarOut(ns) == [i \in 1..(Len(ns) - 1) |-> <<ns[1], ns[i + 1]>>]
StarIn(ns)  == [i \in 1..(Len(ns) - 1) |-> <<ns[i], ns[Len(ns)]>>]
Skip(ns)    == [i \in 1..(Len(ns) - 2) |-> <<ns[i + 2], ns[i]>>]

ShapeGraphs ==
    {[nodes |-> SubSeq(NodeNames, 1, n),
      edges |-> (IF b[1] THEN Chain(SubSeq(NodeNames, 1, n)) ELSE <<>>)
                \o (IF b[2] THEN Back(SubSeq(NodeNames, 1, n)) ELSE <<>>)
                \o (IF b[3] THEN StarOut(SubSeq(NodeNames, 1, n)) ELSE <<>>)
                \o (IF b[4] THEN StarIn(SubSeq(NodeNames, 1, n)) ELSE <<>>)
                \o (IF b[5] THEN Skip(SubSeq(NodeNames, 1, n)) ELSE <<>>)] :
        n \in 0..MaxNodes, b \in [1..5 -> BOOLEAN]}

\* Every graph over the nodes getUser, setConfig, Widget in every node order,
\* self-loops included; the edge list is in the order of the node list.
SmallNames == {"getUser", "setConfig", "Widget"}

AllPairs(ns) == [k \in 1..(Len(ns) * Len(ns)) |->
                    <<ns[((k - 1) \div Len(ns)) + 1], ns[((k - 1) % Len(ns)) + 1]>>]

EdgeList(ns, E) ==
    LET InE(e) == e \in E
    IN  SelectSeq(AllPairs(ns), InE)

SmallGraphs ==
    {[nodes |-> ns, edges |-> EdgeList(ns, E)] :
        ns \in IterationOrders(SmallNames), E \in SUBSET (SmallNames \X SmallNames)}

Graphs == ShapeGraphs \cup SmallGraphs

Stages == {"fetch", "analyze", "reason"}

(***************************************************************************)
(* The state machine.  A function is called from outside once, from the    *)
(* initial state; run_agent_graph then advances one stage per step.        *)
(***************************************************************************)
None == [type |-> "NoneType"]

Init ==
    /\ op = "none" /\ arg = None /\ ret = None /\ exc = ""
    /\ pc = "idle" /\ fault = "none" /\ caught = ""
    /\ chunk_result = None /\ structure_result = None /\ locals = None

Idle == op = "none" /\ pc = "idle"

CallChunkText ==
    /\ Idle
    /\ \E t \in PlainTexts, size \in 1..MaxChunkSize :
        /\ op' = "chunk_text"
        /\ arg' = [text |-> t, chunk_size |-> size]
        /\ ret' = chunk_text(t, size)
    /\ UNCHANGED <<exc, pc, fault, caught, chunk_result, structure_result, locals>>

CallSimpleEmbedding ==
    /\ Idle
    /\ \E t \in EmbedTexts :
        /\ op' = "simple_embedding"
        /\ arg' = [text |-> t]
        /\ ret' = simple_embedding(t)
    /\ UNCHANGED <<exc, pc, fault, caught, chunk_result, structure_result, locals>>

CallStructureProcess ==
    /\ Idle
    /\ \E chunks \in ChunkLists :
        \E entities \in IterationOrders(extract_entities(chunks)) :
            /\ op' = "structure_process"
            /\ arg' = [chunks |-> chunks]
            /\ locals' = StructureLocals(chunks, entities)
            /\ ret' = StructureProcess(chunks, entities)
    /\ UNCHANGED <<exc, pc, fault, caught, chunk_result, structure_result>>

CallBuildExecutionFlow ==
    /\ Idle
    /\ \E g \in Graphs :
        LET r == build_execution_flow(g)
        IN  /\ op' = "build_execution_flow"
            /\ arg' = [graph_data |-> g]
            /\ ret' = r.value
            /\ exc' = r.raised
    /\ UNCHANGED <<pc, fault, caught, chunk_result, structure_result, locals>>

CallExtractKeyComponents ==
    /\ Idle
    /\ \E g \in Graphs :
        /\ op' = "extract_key_components"
        /\ arg' = [graph_data |-> g]
        /\ ret' = extract_key_components(g)
    /\ UNCHANGED <<exc, pc, fault, caught, chunk_result, structure_result, locals>>

CallExtractKeyFunctions ==
    /\ Idle
    /\ \E g \in Graphs :
        /\ op' = "extract_key_functions"
        /\ arg' = [graph_data |-> g]
        /\ ret' = extract_key_functions(g)
    /\ UNCHANGED <<exc, pc, fault, caught, chunk_result, structure_result, locals>>

\* run_agent_graph(text) is entered; the environment may fail in one stage.
RunAgentGraph ==
    /\ Idle
    /\ \E t \in {PyStr(s) : s \in CodeTexts} \cup {PyNone}, f \in Stages \cup {"none"} :
        /\ op' = "run_agent_graph"
        /\ arg' = [text |-> t]
        /\ fault' = f
    /\ pc' = "fetch"
    /\ UNCHANGED <<ret, exc, caught, chunk_result, structure_result, locals>>

\* chunk_result = await repo_fetcher_agent.process(text)
Fetch ==
    /\ pc = "fetch"
    /\ IF fault = "fetch"
       THEN exc' = "MemoryError" /\ pc' = "except" /\ UNCHANGED chunk_result
       ELSE IF arg.text.type # "str"
       THEN exc' = "AttributeError" /\ pc' = "except" /\ UNCHANGED chunk_result
       ELSE chunk_result' = RepoFetcherProcess(arg.text.value) /\ pc' = "analyze"
                /\ UNCHANGED exc
    /\ UNCHANGED <<op, arg, ret, fault, caught, structure_result, locals>>

\* structure_result = await structure_analyzer_agent.process(chunk_result["chunks"])
Analyze ==
    /\ pc = "analyze"
    /\ IF fault = "analyze"
       THEN exc' = "MemoryError" /\ pc' = "except" /\ UNCHANGED <<structure_result, locals>>
       ELSE \E entities \in IterationOrders(extract_entities(chunk_result.chunks)) :
                /\ locals' = StructureLocals(chunk_result.chunks, entities)
                /\ structure_result' = StructureProcess(chunk_result.chunks, entities)
                /\ pc' = "reason"
                /\ UNCHANGED exc
    /\ UNCHANGED <<op, arg, ret, fault, caught, chunk_result>>

\* flow_result = await flow_reasoning_agent.process(...); return flow_result
Reason ==
    /\ pc = "reason"
    /\ LET r == FlowProcess(structure_result.dependency_graph)
       IN  IF fault = "reason"
           THEN exc' = "MemoryError" /\ pc' = "except" /\ UNCHANGED ret
           ELSE IF r.raised # ""
           THEN exc' = r.raised /\ pc' = "except" /\ UNCHANGED ret
           ELSE ret' = r.value /\ pc' = "done" /\ UNCHANGED exc
    /\ UNCHANGED <<op, arg, fault, caught, chunk_result, structure_result, locals>>

\* A variant of the except clause that handles AttributeError only.
ExceptAttributeError ==
    /\ pc = "except"
    /\ IF IsSubclass(exc, "AttributeError")
       THEN ret' = GenericSummary /\ caught' = exc /\ exc' = ""
       ELSE UNCHANGED <<ret, caught, exc>>
    /\ pc' = "done"
    /\ UNCHANGED <<op, arg, fault, chunk_result, structure_result, locals>>

\* except Exception as e: return the generic summary.  An exception that is not
\* an Exception leaves run_agent_graph.
Except ==
    /\ pc = "except"
    /\ IF IsSubclass(exc, "Exception")
       THEN ret' = GenericSummary /\ caught' = exc /\ exc' = ""
       ELSE UNCHANGED <<ret, caught, exc>>
    /\ pc' = "done"
    /\ UNCHANGED <<op, arg, fault, chunk_result, structure_result, locals>>

Next ==
    \/ CallChunkText
    \/ CallSimpleEmbedding
    \/ CallStructureProcess
    \/ CallBuildExecutionFlow
    \/ CallExtractKeyComponents
    \/ CallExtractKeyFunctions
    \/ RunAgentGraph
    \/ Fetch
    \/ Analyze
    \/ Reason
    \/ Except

Spec == Init /\ [][Next]_vars

(***************************************************************************)
(* Properties.  A function's property is stated on the state its call      *)
(* leaves: arg holds the arguments, ret the value returned, exc the        *)
(* exception that left it.                                                 *)
(***************************************************************************)
Min(a, b) == IF a < b THEN a ELSE b

\* A finite directed graph has a cycle iff some non-empty set of its nodes has,
\* for each of its nodes, an edge from it into the set.
HasCycle(graph_data) ==
    \E S \in SUBSET Range(graph_data.nodes) :
        /\ S # {}
        /\ \A u \in S : \E v \in S : <<u, v>> \in Range(graph_data.edges)

\* The position of x in a sequence without repetitions.
IndexIn(seq, x) == CHOOSE i \in DOMAIN seq : seq[i] = x

IsThreeCycle(graph_data) ==
    /\ Len(graph_data.nodes) = 3
    /\ Cardinality(Range(graph_data.nodes)) = 3
    /\ graph_data.edges = <<<<graph_data.nodes[1], graph_data.nodes[2]>>,
                            <<graph_data.nodes[2], graph_data.nodes[3]>>,
                            <<graph_data.nodes[3], graph_data.nodes[1]>>>>

\* C1: on a graph that is one directed cycle A->B, B->C, C->A build_execution_flow
\* does not raise and returns the three steps built from A, B, C in insertion order.
C1_CycleUsesInsertionOrder ==
    (op = "build_execution_flow" /\ IsThreeCycle(arg.graph_data)) =>
        /\ exc = ""
        /\ ret = <<"Initialize " \o arg.graph_data.nodes[1],
                   "Process " \o arg.graph_data.nodes[2],
                   "Return result from " \o arg.graph_data.nodes[3]>>

\* C2: for every text, the empty one included, simple_embedding returns exactly
\* 128 values, each in [0, 1], and the same values on every call with that text.
C2_Fingerprint128 ==
    op = "simple_embedding" =>
        /\ Len(ret) = 128
        /\ \A i \in DOMAIN ret : 0 <= ret[i][1] /\ ret[i][1] <= ret[i][2]
        /\ ret = simple_embedding(arg.text)

IsSmallNamesGraph(graph_data) ==
    Len(graph_data.nodes) = 3 /\ Range(graph_data.nodes) = {"getUser", "setConfig", "Widget"}

\* C3 as stated: on a graph whose nodes are exactly getUser, setConfig and Widget
\* extract_key_functions returns exactly <<"getUser">>.
C3_OnlyGetUser ==
    (op = "extract_key_functions" /\ IsSmallNamesGraph(arg.graph_data)) =>
        ret = <<"getUser">>

\* C3, amended: on a graph whose nodes are exactly getUser, setConfig and Widget
\* extract_key_functions returns getUser and Widget ("widget" contains "get"), in
\* node order, and not setConfig.
C3_GetUserAndWidget ==
    (op = "extract_key_functions" /\ IsSmallNamesGraph(arg.graph_data)) =>
        LET Matches(n) == n \in {"getUser", "Widget"}
        IN  ret = SelectSeq(arg.graph_data.nodes, Matches)

C3_Witness ==
    /\ op = "extract_key_functions"
    /\ arg.graph_data.nodes = <<"Widget", "setConfig", "getUser">>
    /\ ret = <<"Widget", "getUser">>

\* A stage of the run raised: the environment failed in it, or the text is not a
\* string and the first stage cannot split it.
StageRaises == fault # "none" \/ arg.text.type # "str"

\* C4: run_agent_graph never ends with an exception, and whenever a stage raised
\* it returns exactly the generic summary.
C4_GenericSummaryOnFailure ==
    (op = "run_agent_graph" /\ pc = "done") =>
        /\ exc = ""
        /\ StageRaises => (caught # "" /\ ret = GenericSummary)

C4_Witness ==
    /\ op = "run_agent_graph" /\ pc = "done"
    /\ fault = "reason" /\ caught = "MemoryError"
    /\ structure_result # None /\ structure_result.dependency_graph.nodes # <<>>
    /\ ret = GenericSummary

\* C5: for the chunks "class Foo uses class Bar", "class Bar calls class Baz" the
\* pairs of find_dependencies include (Foo, Bar) and (Bar, Baz), whatever the
\* iteration order of the entity set.
C5_DirectedPairs ==
    (op = "structure_process"
        /\ arg.chunks = <<"class Foo uses class Bar", "class Bar calls class Baz">>) =>
        /\ Range(locals.entities) = {"Foo", "Bar", "Baz"}
        /\ <<"Foo", "Bar">> \in Range(locals.dependencies)
        /\ <<"Bar", "Baz">> \in Range(locals.dependencies)

\* C6: the chunks of chunk_text, joined with single spaces and split again, are
\* the words of the text in order; no chunk is empty; the empty text has no chunk.
C6_ChunkTextRoundTrip ==
    op = "chunk_text" =>
        /\ Split(Join(" ", ret)) = Split(arg.text)
        /\ \A i \in DOMAIN ret : ret[i] # ""
        /\ arg.text = "" => ret = <<>>

C6_Witness ==
    /\ op = "chunk_text"
    /\ Len(ret) >= 2
    /\ Len(Split(arg.text)) > Len(ret)
    /\ Join(" ", ret) # arg.text

\* C7: with no entity extracted no stage raises and every fallback literal is
\* returned, by each function and by run_agent_graph.
C7_EmptyFallbacks ==
    /\ (op = "structure_process" /\ locals.entities = <<>>) =>
            /\ locals.dependencies = <<>>
            /\ ret.dependency_graph.nodes = <<>>
            /\ ret.dependency_graph.edges = <<>>
    /\ (op = "build_execution_flow" /\ arg.graph_data.nodes = <<>>) =>
            /\ exc = ""
            /\ ret = <<"System initializes", "Processes input", "Returns output">>
    /\ (op = "extract_key_components" /\ arg.graph_data.nodes = <<>>) =>
            ret = <<"core system", "input handler", "output formatter">>
    /\ (op = "extract_key_functions" /\ arg.graph_data.nodes = <<>>) =>
            ret = <<"main", "init", "run">>
    /\ (op = "run_agent_graph" /\ pc = "done" /\ fault = "none"
            /\ locals # None /\ locals.entities = <<>>) =>
            /\ exc = "" /\ caught = ""
            /\ ret = [execution_flow |-> <<"System initializes", "Processes input",
                                          "Returns output">>,
                      key_components |-> <<"core system", "input handler",
                                          "output formatter">>,
                      key_functions  |-> <<"main", "init", "run">>]

C7_Witness ==
    /\ op = "run_agent_graph" /\ pc = "done" /\ fault = "none"
    /\ arg.text = PyStr("plain prose with no declarations in it")
    /\ locals # None /\ locals.entities = <<>> /\ locals.dependencies = <<>>
    /\ ret.key_functions = <<"main", "init", "run">>

\* C8: on an acyclic graph with n >= 1 nodes build_execution_flow returns min(n, 8)
\* steps over the first nodes of the topological order: "Initialize" first,
\* "Return result from" last when there is more than one step, "Process" between.
C8_FlowLabels ==
    (op = "build_execution_flow" /\ arg.graph_data.nodes # <<>>
        /\ ~HasCycle(arg.graph_data)) =>
        LET order == topological_sort(GraphOf(arg.graph_data)).value
            m == Min(Len(order), 8)
        IN  /\ exc = ""
            /\ Len(order) = Len(arg.graph_data.nodes)
            /\ Len(ret) = m
            /\ ret[1] = "Initialize " \o order[1]
            /\ m > 1 => ret[m] = "Return result from " \o order[m]
            /\ \A k \in 2..(m - 1) : ret[k] = "Process " \o order[k]

\* The in-degree plus the out-degree of x, counted on the distinct edges.
EdgeDegree(graph_data, x) ==
    Cardinality({e \in Range(graph_data.edges) : e[1] = x})
    + Cardinality({e \in Range(graph_data.edges) : e[2] = x})

\* C9: on a graph with n >= 1 nodes extract_key_components returns min(n, 5) node
\* names by non-increasing degree; among equal degrees the earlier node comes
\* first, and an omitted node never ranks before a returned one.
C9_KeyComponentsRanking ==
    (op = "extract_key_components" /\ arg.graph_data.nodes # <<>>) =>
        LET nodes == arg.graph_data.nodes
            Deg(x) == EdgeDegree(arg.graph_data, x)
            Ahead(x, y) == Deg(x) > Deg(y)
                           \/ (Deg(x) = Deg(y) /\ IndexIn(nodes, x) < IndexIn(nodes, y))
        IN  /\ Len(ret) = Min(Len(nodes), 5)
            /\ Range(ret) \subseteq Range(nodes)
            /\ \A i, j \in DOMAIN ret : i < j => Ahead(ret[i], ret[j])
            /\ \A x \in Range(ret), y \in Range(nodes) \ Range(ret) : Ahead(x, y)

C9_Witness ==
    /\ op = "extract_key_components"
    /\ Len(arg.graph_data.nodes) > 5
    /\ Len(ret) = 5
    /\ ret # SubSeq(arg.graph_data.nodes, 1, 5)
    /\ \E i \in 1..4 : EdgeDegree(arg.graph_data, ret[i]) = EdgeDegree(arg.graph_data, ret[i + 1])
    /\ \E x \in Range(arg.graph_data.nodes) \ Range(ret) :
        EdgeDegree(arg.graph_data, x) = EdgeDegree(arg.graph_data, ret[5])

\* The graph goes forward in the iteration order of the entity set.
ForwardIn(entities, graph_data) ==
    /\ graph_data.nodes = entities
    /\ \A e \in Range(graph_data.edges) :
        /\ e[1] \in Range(entities) /\ e[2] \in Range(entities)
        /\ IndexIn(entities, e[1]) < IndexIn(entities, e[2])

\* C10: the dependency graph StructureAnalyzerAgent.process builds has no cycle
\* and no self-loop, every edge of it goes from an entity to one later in the
\* iteration order of the entity set, every edge endpoint is a node, and no run
\* of run_agent_graph has topological_sort raise.
C10_DependencyGraphAcyclic ==
    /\ (op = "structure_process" \/ (op = "run_agent_graph" /\ structure_result # None)) =>
        LET g == IF op = "structure_process" THEN ret.dependency_graph
                 ELSE structure_result.dependency_graph
        IN  /\ ForwardIn(locals.entities, g)
            /\ ~HasCycle(g)
            /\ \A e \in Range(g.edges) : e[1] # e[2]
            /\ topological_sort(GraphOf(g)).raised = ""
    /\ op = "run_agent_graph" =>
        /\ exc # "NetworkXUnfeasible"
        /\ caught # "NetworkXUnfeasible"

C10_Witness ==
    /\ op = "run_agent_graph" /\ pc = "done" /\ fault = "none"
    /\ structure_result # None
    /\ Len(structure_result.dependency_graph.nodes) >= 3
    /\ Len(structure_result.dependency_graph.edges) >= 3
    /\ caught = ""

====
